---- MODULE Spec2Model ----
\* Model of email_sender.py: EmailSenderTool._invoke (account selection,
\* recipient parsing, message composition, SMTP_SSL session) and
\* EmailSenderTool.test_connection, run against a nondeterministic SMTP server.
\*
\* Python values are represented as follows.
\*   str used only for equality (account names, tokens)  -> TLA+ string
\*   str that is split/stripped/joined                   -> sequence of 1-char strings
\*   Optional[x] / dict.get(key) that may be absent      -> <<>> (None) or <<x>>
\*   list                                                -> sequence
EXTENDS Integers, Sequences, FiniteSets, TLC

\* ---------------------------------------------------------------- bounds
MaxAccounts == 2
MaxRawLen == 5

\* ------------------------------------------------------- Python helpers
None == <<>>
Some(x) == <<x>>

\* dict.get(key, default) on a key that may be absent.
Get(opt, default) == IF opt = None THEN default ELSE opt[1]

Whitespace == {" "}
Digits == {"0", "1", "2", "3", "4", "5", "6", "7", "8", "9"}

Strings(alphabet, n) == UNION {[1..k -> alphabet] : k \in 0..n}

\* str.split(','): the fields between commas; always at least one field.
RECURSIVE Split(_)
Split(s) ==
    IF \A i \in 1..Len(s) : s[i] # ","
    THEN <<s>>
    ELSE LET i == CHOOSE k \in 1..Len(s) :
                      /\ s[k] = ","
                      /\ \A j \in 1..(k - 1) : s[j] # ","
         IN <<SubSeq(s, 1, i - 1)>> \o Split(SubSeq(s, i + 1, Len(s)))

RECURSIVE LStrip(_)
LStrip(s) == IF s # <<>> /\ Head(s) \in Whitespace THEN LStrip(Tail(s)) ELSE s

RECURSIVE RStrip(_)
RStrip(s) ==
    IF s # <<>> /\ s[Len(s)] \in Whitespace
    THEN RStrip(SubSeq(s, 1, Len(s) - 1))
    ELSE s

\* Variant: only leading whitespace is removed.
StripLeadingOnly(s) == LStrip(s)

\* str.strip()
Strip(s) == LStrip(RStrip(s))

\* [email.strip() for email in raw.split(',') if email.strip()]
RECURSIVE StripNonEmpty(_)
StripNonEmpty(fields) ==
    IF fields = <<>> THEN <<>>
    ELSE IF Strip(Head(fields)) # <<>>
         THEN <<Strip(Head(fields))>> \o StripNonEmpty(Tail(fields))
         ELSE StripNonEmpty(Tail(fields))

ParseEmails(raw) == StripNonEmpty(Split(raw))

\* sep.join(items)
RECURSIVE Join(_, _)
Join(sep, items) ==
    IF items = <<>> THEN <<>>
    ELSE IF Len(items) = 1 THEN items[1]
    ELSE items[1] \o sep \o Join(sep, Tail(items))

\* int(x) raises ValueError unless x is a decimal numeral.
IntRaises(s) == s = <<>> \/ \E i \in 1..Len(s) : s[i] \notin Digits

\* bool(x) of an Optional[str]
Truthy(opt) == opt # None /\ opt[1] # ""

\* ------------------------------------------------------------ input sets
Alphabet == {"a", "b", ",", " "}
Names == {"a", "b"}
Users == {<<"a">>, <<"b">>}
Ports == {<<"4", "6", "5">>, <<"s", "s", "l">>}

\* One saved SMTP account of credentials['smtp_accounts'].
Accounts ==
    [name : Names, is_default : BOOLEAN, server : {"smtp.example"}, port : Ports,
     user : Users, password : {"secret"}, sender_name : {<<"N">>}]

AccountLists(n) == UNION {[1..k -> Accounts] : k \in 0..n}

\* The credentials dict handed to test_connection.
Credentials ==
    [server : {"smtp.example"}, port : Ports, user : Users, password : {"secret"}]

NoParameters ==
    [sender_account |-> None, to_emails |-> None, cc_emails |-> None,
     bcc_emails |-> None, subject |-> None]

NoCredentials ==
    [server |-> "smtp.example", port |-> <<"4", "6", "5">>, user |-> <<"a">>,
     password |-> "secret"]

\* ------------------------------------------------------------- messages
\* The literals of the source are Chinese; each is modelled by a token that
\* says the same in English.
MsgNoAccounts == <<"error: no sender account is configured in the tool">>
MsgAccountNotFound(name) == <<"error: no sender account configuration named", name>>
MsgToEmpty == <<"error: recipient address (to_emails) must not be empty">>
SendFailedPrefix == "email send failed: "
DefaultSubject == <<"D">>

\* ----------------------------------------------------------------- state
VARIABLES
    op,               \* which entry point was called
    smtp_accounts,    \* self.runtime.credentials.get('smtp_accounts', [])
    tool_parameters,  \* the parameter map of _invoke
    credentials,      \* the credentials dict of test_connection
    pc,               \* position in the entry point
    target_config,    \* Optional account
    to_emails, cc_emails, bcc_emails, subject,
    message,          \* headers of the composed MIMEText, header name -> value
    calls,            \* what the SMTP server has seen, in order
    session,          \* "none" | "open" | "closed": the SMTP_SSL object's socket
    sent,             \* Optional arguments of the sendmail call
    exc,              \* Optional str(e) of the exception in flight
    result            \* what the entry point returned

vars ==
    <<op, smtp_accounts, tool_parameters, credentials, pc, target_config, to_emails,
      cc_emails, bcc_emails, subject, message, calls, session, sent, exc, result>>

inputs == <<op, smtp_accounts, tool_parameters, credentials>>
locals == <<target_config, to_emails, cc_emails, bcc_emails, subject, message>>
transport == <<calls, session, sent>>

NoResult == [kind |-> "none"]
NoMessage == [h \in {} |-> <<>>]

InitWith(accountLists, senderAccounts, toStrings, ccStrings, bccStrings, subjects) ==
    /\ op \in {"_invoke", "test_connection"}
    /\ \/ /\ op = "_invoke"
          /\ smtp_accounts \in accountLists
          /\ tool_parameters \in
                [sender_account : senderAccounts, to_emails : toStrings,
                 cc_emails : ccStrings, bcc_emails : bccStrings, subject : subjects]
          /\ credentials = NoCredentials
          /\ pc = "load_accounts"
       \/ /\ op = "test_connection"
          /\ smtp_accounts \in {l \in accountLists : Len(l) <= 1}
          /\ tool_parameters = NoParameters
          /\ credentials \in Credentials
          /\ pc = "tc_credentials"
    /\ target_config = None
    /\ to_emails = <<>>
    /\ cc_emails = <<>>
    /\ bcc_emails = <<>>
    /\ subject = <<>>
    /\ message = NoMessage
    /\ calls = <<>>
    /\ session = "none"
    /\ sent = None
    /\ exc = None
    /\ result = NoResult

\* ------------------------------------------------------- return values
TextMessage(text) == [kind |-> "text", text |-> text]
JsonMessage(status, error_message) ==
    [kind |-> "json", status |-> status, error_message |-> error_message]

Return(value) ==
    /\ result' = value
    /\ pc' = "done"

\* ---------------------------------------------------- account selection
\* Variant: the last account with the name wins.
RECURSIVE LastNamed(_, _)
LastNamed(configs, name) ==
    IF configs = <<>> THEN None
    ELSE IF configs[Len(configs)].name = name THEN Some(configs[Len(configs)])
    ELSE LastNamed(SubSeq(configs, 1, Len(configs) - 1), name)

\* next((c for c in smtp_configs if c.get('name') == selected_account_name), None)
RECURSIVE FirstNamed(_, _)
FirstNamed(configs, name) ==
    IF configs = <<>> THEN None
    ELSE IF Head(configs).name = name THEN Some(Head(configs))
    ELSE FirstNamed(Tail(configs), name)

\* Variant: the last default account wins.
RECURSIVE LastDefault(_)
LastDefault(configs) ==
    IF configs = <<>> THEN None
    ELSE IF configs[Len(configs)].is_default THEN Some(configs[Len(configs)])
    ELSE LastDefault(SubSeq(configs, 1, Len(configs) - 1))

\* next((c for c in smtp_configs if c.get('is_default', False)), None)
RECURSIVE FirstDefault(_)
FirstDefault(configs) ==
    IF configs = <<>> THEN None
    ELSE IF Head(configs).is_default THEN Some(Head(configs))
    ELSE FirstDefault(Tail(configs))

\* target_config after the if/else on selected_account_name; None where the
\* source returns the not-found message. configs is not empty here.
TargetConfig(configs, selected) ==
    IF Truthy(selected)
    THEN FirstNamed(configs, selected[1])
    ELSE IF FirstDefault(configs) = None
         THEN Some(configs[1])
         ELSE FirstDefault(configs)

LoadAccounts ==
    /\ pc = "load_accounts"
    /\ IF smtp_accounts = <<>>
       THEN Return(TextMessage(MsgNoAccounts))
       ELSE pc' = "select_account" /\ UNCHANGED result
    /\ UNCHANGED <<inputs, locals, transport, exc>>

SelectAccount ==
    /\ pc = "select_account"
    /\ LET selected == tool_parameters.sender_account
           found == TargetConfig(smtp_accounts, selected)
       IN IF found = None
          THEN /\ Return(TextMessage(MsgAccountNotFound(selected[1])))
               /\ UNCHANGED target_config
          ELSE /\ target_config' = found
               /\ pc' = "parse_to"
               /\ UNCHANGED result
    /\ UNCHANGED <<inputs, to_emails, cc_emails, bcc_emails, subject, message,
                   transport, exc>>

\* ------------------------------------------------------ mail parameters
\* Variant: the empty-recipient failure in the structured result shape.
ToEmptyJson == JsonMessage("error", MsgToEmpty)

\* self.create_text_message(...) of the empty-recipient check.
ToEmptyResult == TextMessage(MsgToEmpty)

\* Variant: the empty-recipient check does not return.
ParseToNoReturn ==
    /\ pc = "parse_to"
    /\ to_emails' = ParseEmails(Get(tool_parameters.to_emails, <<>>))
    /\ pc' = "read_parameters"
    /\ UNCHANGED <<inputs, target_config, cc_emails, bcc_emails, subject, message,
                   transport, exc, result>>

ParseTo ==
    /\ pc = "parse_to"
    /\ to_emails' = ParseEmails(Get(tool_parameters.to_emails, <<>>))
    /\ IF to_emails' = <<>>
       THEN Return(ToEmptyResult)
       ELSE pc' = "read_parameters" /\ UNCHANGED result
    /\ UNCHANGED <<inputs, target_config, cc_emails, bcc_emails, subject, message,
                   transport, exc>>

ReadParameters ==
    /\ pc = "read_parameters"
    /\ subject' = Get(tool_parameters.subject, DefaultSubject)
    /\ cc_emails' = ParseEmails(Get(tool_parameters.cc_emails, <<>>))
    /\ bcc_emails' = ParseEmails(Get(tool_parameters.bcc_emails, <<>>))
    /\ pc' = "compose"
    /\ UNCHANGED <<inputs, target_config, to_emails, message, transport, exc, result>>

\* ---------------------------------------------------------- composition
FromHeader(config) == config.sender_name \o <<" ", "<">> \o config.user \o <<">">>

\* The headers set on the MIMEText, header name -> value.
Headers(config, to, cc, subj) ==
    LET base == ("From" :> FromHeader(config)) @@ ("To" :> Join(<<",", " ">>, to))
                @@ ("Subject" :> subj)
    IN IF cc # <<>> THEN base @@ ("Cc" :> Join(<<",", " ">>, cc)) ELSE base

\* Variant: the envelope follows the headers and leaves bcc out.
EnvelopeWithoutBcc(to, cc, bcc) == to \o cc

\* to_emails + cc_emails + bcc_emails
Envelope(to, cc, bcc) == to \o cc \o bcc

Compose ==
    /\ pc = "compose"
    /\ IF IntRaises(target_config[1].port)
       THEN /\ exc' = Some("ValueError")
            /\ pc' = "except"
            /\ UNCHANGED message
       ELSE /\ message' = Headers(target_config[1], to_emails, cc_emails, subject)
            /\ pc' = "connect"
            /\ UNCHANGED exc
    /\ UNCHANGED <<inputs, target_config, to_emails, cc_emails, bcc_emails, subject,
                   transport, result>>

\* ------------------------------------------------------------ transport
\* smtplib against a server that may refuse any step. A call appends to
\* calls what the server saw and whether it accepted.
QuitReplies == {"221", "500", "disconnected"}

\* smtplib.SMTP_SSL(server, port, timeout=10): connects in the constructor;
\* a refused connection raises and leaves no session behind.
Connect(at, onSuccess, onError) ==
    /\ pc = at
    /\ \E ok \in BOOLEAN :
          /\ calls' = Append(calls, [op |-> "connect", ok |-> ok])
          /\ IF ok
             THEN session' = "open" /\ pc' = onSuccess /\ UNCHANGED exc
             ELSE /\ exc' = Some("SMTPConnectError")
                  /\ pc' = onError
                  /\ UNCHANGED session
    /\ UNCHANGED <<inputs, locals, sent, result>>

\* server.login(user, password) inside the with block: an exception leaves
\* the block through __exit__.
Login(at, onSuccess, onExit) ==
    /\ pc = at
    /\ \E ok \in BOOLEAN :
          /\ calls' = Append(calls, [op |-> "login", ok |-> ok])
          /\ IF ok
             THEN pc' = onSuccess /\ UNCHANGED exc
             ELSE exc' = Some("SMTPAuthenticationError") /\ pc' = onExit
    /\ UNCHANGED <<inputs, locals, session, sent, result>>

\* Variant: no with block; the session is released only when the body did
\* not raise.
ExitUnlessRaised(at, onReturn, onError) ==
    /\ pc = at
    /\ IF exc = None
       THEN /\ calls' = calls \o <<[op |-> "quit", ok |-> TRUE],
                                   [op |-> "close", ok |-> TRUE]>>
            /\ session' = "closed"
            /\ pc' = onReturn
       ELSE /\ pc' = onError
            /\ UNCHANGED <<calls, session>>
    /\ UNCHANGED <<inputs, locals, sent, exc, result>>

\* SMTP.__exit__: sends QUIT, raises SMTPResponseException on a reply other
\* than 221 (replacing an exception in flight), ignores a dropped connection,
\* and closes the socket in its finally clause.
Exit(at, onReturn, onError) ==
    /\ pc = at
    /\ \E reply \in QuitReplies :
          /\ calls' = calls \o <<[op |-> "quit", ok |-> reply = "221"],
                                 [op |-> "close", ok |-> TRUE]>>
          /\ exc' = IF reply = "500" THEN Some("SMTPResponseException") ELSE exc
          /\ pc' = IF exc' = None THEN onReturn ELSE onError
    /\ session' = "closed"
    /\ UNCHANGED <<inputs, locals, sent, result>>

\* ------------------------------------------------- _invoke, the session
SendConnect == Connect("connect", "login", "except")

\* Variant: a refused login is tried again.
SendLoginRetry == Login("login", "sendmail", "login")

SendLogin == Login("login", "sendmail", "exit")

\* server.sendmail(smtp_user, to_emails + cc_emails + bcc_emails, message.as_string())
Sendmail ==
    /\ pc = "sendmail"
    /\ sent' = Some([from_addr |-> target_config[1].user,
                     to_addrs |-> Envelope(to_emails, cc_emails, bcc_emails),
                     msg |-> message])
    /\ \E ok \in BOOLEAN :
          /\ calls' = Append(calls, [op |-> "sendmail", ok |-> ok])
          /\ exc' = IF ok THEN exc ELSE Some("SMTPRecipientsRefused")
    /\ pc' = "exit"
    /\ UNCHANGED <<inputs, locals, session, result>>

SendExit == Exit("exit", "return", "except")

ReturnSuccess ==
    /\ pc = "return"
    /\ Return(JsonMessage("success", <<>>))
    /\ UNCHANGED <<inputs, locals, transport, exc>>

\* except Exception as e
HandleException ==
    /\ pc = "except"
    /\ Return(JsonMessage("error", <<SendFailedPrefix, exc[1]>>))
    /\ exc' = None
    /\ UNCHANGED <<inputs, locals, transport>>

\* ------------------------------------------------------ test_connection
TcCredentials ==
    /\ pc = "tc_credentials"
    /\ IF IntRaises(credentials.port)
       THEN exc' = Some("ValueError") /\ pc' = "tc_except"
       ELSE pc' = "tc_connect" /\ UNCHANGED exc
    /\ UNCHANGED <<inputs, locals, transport, result>>

TcConnect == Connect("tc_connect", "tc_login", "tc_except")

TcLogin == Login("tc_login", "tc_exit", "tc_exit")

TcExit == Exit("tc_exit", "tc_return", "tc_except")

TcReturnSuccess ==
    /\ pc = "tc_return"
    /\ Return([kind |-> "dict", status |-> "success"])
    /\ UNCHANGED <<inputs, locals, transport, exc>>

TcHandleException ==
    /\ pc = "tc_except"
    /\ Return([kind |-> "dict", status |-> "error", message |-> exc[1]])
    /\ exc' = None
    /\ UNCHANGED <<inputs, locals, transport>>

\* -------------------------------------------------------- specifications
Next ==
    \/ LoadAccounts
    \/ SelectAccount
    \/ ParseTo
    \/ ReadParameters
    \/ Compose
    \/ SendConnect
    \/ SendLogin
    \/ Sendmail
    \/ SendExit
    \/ ReturnSuccess
    \/ HandleException
    \/ TcCredentials
    \/ TcConnect
    \/ TcLogin
    \/ TcExit
    \/ TcReturnSuccess
    \/ TcHandleException

SenderAccounts == {None, Some(""), Some("a"), Some("b"), Some("z")}

\* Every account list up to MaxAccounts and every way of naming an account,
\* with a few to_emails strings.
Init ==
    InitWith(AccountLists(MaxAccounts), SenderAccounts,
             {None, Some(<<>>), Some(<<" ", ",">>), Some(<<"a">>)},
             {None}, {None}, {None, Some(<<"s">>)})

Spec == Init /\ [][Next]_vars

\* Every to_emails string up to MaxRawLen, a few cc_emails and bcc_emails
\* strings, and the account lists of at most one account, with a valid port.
InitRecipients ==
    InitWith({l \in AccountLists(1) :
                 \A i \in 1..Len(l) :
                     l[i].name = "a" /\ ~l[i].is_default /\ ~IntRaises(l[i].port)},
             {None},
             {None} \cup {Some(s) : s \in Strings(Alphabet, MaxRawLen)},
             {None, Some(<<"a">>), Some(<<"b", ",", " ", "a">>)},
             {None, Some(<<" ", "a", ",", "b">>)},
             {None})

SpecRecipients == InitRecipients /\ [][Next]_vars

\* ---------------------------------------------------- claim vocabulary
Invoked == op = "_invoke"
Tested == op = "test_connection"
Returned == pc = "done"

Elements(seq) == {seq[i] : i \in 1..Len(seq)}

CallsOf(name) == SelectSeq(calls, LAMBDA c : c.op = name)
Accepted(name) == \E i \in 1..Len(calls) : calls[i].op = name /\ calls[i].ok
Refused(name) == \E i \in 1..Len(calls) : calls[i].op = name /\ ~calls[i].ok

RequestedName == tool_parameters.sender_account
RawTo == Get(tool_parameters.to_emails, <<>>)
RawCc == Get(tool_parameters.cc_emails, <<>>)
RawBcc == Get(tool_parameters.bcc_emails, <<>>)

\* The positions of the accounts named as requested, and of the defaults.
NamedAt == {i \in 1..Len(smtp_accounts) : smtp_accounts[i].name = RequestedName[1]}
DefaultAt == {i \in 1..Len(smtp_accounts) : smtp_accounts[i].is_default}
Least(S) == CHOOSE i \in S : \A j \in S : i <= j
Greatest(S) == CHOOSE i \in S : \A j \in S : j <= i

\* Account selection is over: SelectAccount has acted.
Selected == Invoked /\ pc \notin {"load_accounts", "select_account"} /\ smtp_accounts # <<>>

\* C1: for a non-empty accounts list and a non-empty requested name, the
\* account used is the first in list order whose name equals the requested
\* name, whatever the is_default flags; when none has that name the
\* invocation ends with the account-not-found text message naming the
\* requested account, with no account selected.
C1_NamedAccountFirstMatch ==
    (Selected /\ Truthy(RequestedName)) =>
        IF NamedAt = {}
        THEN /\ Returned
             /\ result = TextMessage(MsgAccountNotFound(RequestedName[1]))
             /\ target_config = None
        ELSE /\ target_config = Some(smtp_accounts[Least(NamedAt)])
             /\ result.kind # "text" \/ result = ToEmptyResult

\* Two different accounts carry the requested name, the second is the
\* default one, and the first was used.
C1_Witness ==
    /\ Selected /\ Returned /\ Truthy(RequestedName)
    /\ Cardinality(NamedAt) = 2
    /\ smtp_accounts[1] # smtp_accounts[2]
    /\ ~smtp_accounts[1].is_default /\ smtp_accounts[2].is_default
    /\ target_config = Some(smtp_accounts[1])

\* C2: for a non-empty accounts list and an absent or empty requested name,
\* the account used is the first in list order with is_default true, or the
\* account at index 0 when none is marked default; selection never fails.
C2_DefaultOrFirst ==
    (Selected /\ ~Truthy(RequestedName)) =>
        /\ target_config =
              Some(smtp_accounts[IF DefaultAt = {} THEN 1 ELSE Least(DefaultAt)])
        /\ result.kind # "text" \/ result = ToEmptyResult

\* No name was requested, the second account is the only default, and it
\* was used.
C2_Witness ==
    /\ Selected /\ Returned /\ ~Truthy(RequestedName)
    /\ DefaultAt = {2}
    /\ smtp_accounts[1] # smtp_accounts[2]
    /\ target_config = Some(smtp_accounts[2])

\* The invocation returned because to_emails parsed to an empty sequence.
ToEmptyReturned ==
    /\ Invoked /\ Returned
    /\ target_config # None
    /\ ParseEmails(RawTo) = <<>>

\* C3 as stated: when to_emails parses to an empty sequence the result is
\* the structured {status, error_message} result with status error.
C3_ToEmptyIsJsonError ==
    ToEmptyReturned => (result.kind = "json" /\ result.status = "error")

\* C3 as amended: when to_emails parses to an empty sequence the result is
\* the plain text message with the recipient-empty diagnostic, the shape of
\* the other two pre-send failures, and not the structured result.
C3_ToEmptyIsTextMessage ==
    ToEmptyReturned => (result = TextMessage(MsgToEmpty) /\ result.kind # "json")

\* to_emails was given, holds only blanks and commas, and the invocation
\* returned.
C3_Witness ==
    /\ ToEmptyReturned
    /\ RawTo # <<>>

\* The inputs of an invocation that ends with a pre-send failure.
PreSendFailure ==
    \/ smtp_accounts = <<>>
    \/ Truthy(RequestedName) /\ NamedAt = {}
    \/ ParseEmails(RawTo) = <<>>

\* C4: in an invocation that ends with a pre-send failure (no accounts,
\* requested account not found, to_emails parsing to empty) the transport is
\* never contacted: no connect, login or sendmail call at any point, and the
\* invocation returns a text message.
C4_PreSendFailureNoTransport ==
    (Invoked /\ PreSendFailure) =>
        /\ calls = <<>> /\ session = "none" /\ sent = None
        /\ Returned => result.kind = "text"

\* The requested name matches none of two accounts, one of them the default,
\* and the invocation returned without a call.
C4_Witness ==
    /\ Invoked /\ Returned
    /\ Len(smtp_accounts) = 2 /\ DefaultAt # {}
    /\ Truthy(RequestedName) /\ NamedAt = {}
    /\ calls = <<>>

\* The addresses a header carries: the addr-spec between angle brackets of
\* From, the comma-separated list of To, Cc and Bcc; Subject is free text.
AngleAddr(value) ==
    LET open == Least({i \in 1..Len(value) : value[i] = "<"})
        close == Greatest({i \in 1..Len(value) : value[i] = ">"})
    IN SubSeq(value, open + 1, close - 1)

AddressesIn(name, value) ==
    IF name = "From" THEN {AngleAddr(value)}
    ELSE IF name \in {"To", "Cc", "Bcc"} THEN Elements(ParseEmails(value))
    ELSE {}

HeaderAddresses(msg) == UNION {AddressesIn(h, msg[h]) : h \in DOMAIN msg}

\* What C5 says of the envelope and of which headers exist.
EnvelopeAndHeaders ==
    /\ sent[1].to_addrs = ParseEmails(RawTo) \o ParseEmails(RawCc) \o ParseEmails(RawBcc)
    /\ "To" \in DOMAIN sent[1].msg
    /\ "Cc" \in DOMAIN sent[1].msg <=> ParseEmails(RawCc) # <<>>
    /\ "Bcc" \notin DOMAIN sent[1].msg

BccOnly ==
    Elements(ParseEmails(RawBcc))
        \ (Elements(ParseEmails(RawTo)) \cup Elements(ParseEmails(RawCc)))

SendReturned == Invoked /\ Returned /\ ~PreSendFailure

\* C6 as stated: for an invocation that passes account selection and
\* recipient validation the result is {success, ""} exactly when connect,
\* login and sendmail all succeeded, and if any of the three failed it is
\* {error, "email send failed: " + diagnostic}; no exception escapes.
C6_SuccessIffAllThreeSucceed ==
    SendReturned =>
        /\ result.kind = "json"
        /\ exc = None
        /\ result = JsonMessage("success", <<>>)
              <=> (Accepted("connect") /\ Accepted("login") /\ Accepted("sendmail"))
        /\ (Refused("connect") \/ Refused("login") \/ Refused("sendmail")) =>
              /\ result.status = "error"
              /\ Len(result.error_message) = 2
              /\ result.error_message[1] = SendFailedPrefix

\* C7: a session opened by an entry point is released exactly once before
\* the entry point returns, whether login or sendmail fails or both succeed:
\* at most one session is opened, it is never closed twice, and at return no
\* session is open.
C7_SessionReleasedOnce ==
    /\ Len(CallsOf("close")) <= 1
    /\ Len(CallsOf("connect")) <= 1
    /\ Len(CallsOf("close")) = 1 => Accepted("connect")
    /\ Returned =>
          /\ session # "open"
          /\ Accepted("connect") <=> (Len(CallsOf("close")) = 1 /\ session = "closed")

\* _invoke returned after login was refused on an open session, which was
\* closed.
C7_Witness ==
    /\ Invoked /\ Returned
    /\ Refused("login")
    /\ session = "closed"
    /\ Len(CallsOf("close")) = 1

\* The recipient sequence a comma-separated string denotes, stated over the
\* positions of the string: a field lies between two neighbouring commas (or
\* string ends); it is kept when it holds a non-blank character, and gives
\* the stretch from its first to its last non-blank character.
FieldStarts(s) == {0} \cup {i \in 1..Len(s) : s[i] = ","}
FieldEnd(s, p) == Least({q \in (p + 1)..(Len(s) + 1) : q = Len(s) + 1 \/ s[q] = ","})
NonBlank(s, p) == {i \in (p + 1)..(FieldEnd(s, p) - 1) : s[i] \notin Whitespace}
KeptFields(s) == {p \in FieldStarts(s) : NonBlank(s, p) # {}}
Recipients(s) ==
    [k \in 1..Cardinality(KeptFields(s)) |->
        LET p == CHOOSE q \in KeptFields(s) :
                     Cardinality({r \in KeptFields(s) : r < q}) = k - 1
        IN SubSeq(s, Least(NonBlank(s, p)), Greatest(NonBlank(s, p)))]

\* ParseTo has just acted; ReadParameters has just acted. No later step
\* assigns to_emails, cc_emails or bcc_emails.
ToParsed ==
    /\ Invoked /\ target_config # None
    /\ pc = "read_parameters" \/ (Returned /\ result.kind = "text")
AllParsed == Invoked /\ pc = "compose"

\* C8: parsing a comma-separated string, the same for to_emails, cc_emails
\* and bcc_emails, yields the comma-split elements with surrounding
\* whitespace trimmed, empty elements dropped, order and duplicates kept; and
\* joining the parsed sequence with commas and parsing again yields the same
\* sequence.
C8_ParseTrimsDropsAndIsIdempotent ==
    /\ ToParsed =>
          /\ to_emails = Recipients(RawTo)
          /\ ParseEmails(Join(<<",">>, to_emails)) = to_emails
    /\ AllParsed =>
          /\ cc_emails = Recipients(RawCc)
          /\ bcc_emails = Recipients(RawBcc)
          /\ ParseEmails(Join(<<",">>, cc_emails)) = cc_emails
          /\ ParseEmails(Join(<<",">>, bcc_emails)) = bcc_emails

\* to_emails held a blank-padded address, an empty element and the same
\* address twice; cc_emails and bcc_emails held two addresses each.
C8_Witness ==
    /\ AllParsed
    /\ Len(Split(RawTo)) = 3
    /\ to_emails = <<<<"a">>, <<"a">>>>
    /\ RawTo[1] = " "
    /\ Len(cc_emails) = 2 /\ Len(bcc_emails) = 2

\* C9 as stated: test_connection never calls sendmail; it returns
\* {status: success} exactly when connect and login both succeeded and
\* otherwise {status: error, message: diagnostic}; no exception escapes.
C9_TestSuccessIffConnectAndLogin ==
    Tested =>
        /\ CallsOf("sendmail") = <<>> /\ sent = None
        /\ Returned =>
              /\ result.kind = "dict"
              /\ exc = None
              /\ result.status = "success" <=> (Accepted("connect") /\ Accepted("login"))
              /\ result.status # "success" =>
                    result = [kind |-> "dict", status |-> "error",
                              message |-> result.message]

\* The connect, login and sendmail calls of the invocation, in order.
TransportCalls == SelectSeq(calls, LAMBDA c : c.op \in {"connect", "login", "sendmail"})

\* C10: within one invocation of _invoke the transport is used at most once
\* and in a fixed order: at most one connect, then at most one login, then
\* at most one sendmail, each only after the one before it succeeded, and
\* none after a failure or after the session was released.
C10_OneAttemptInOrder ==
    Invoked =>
        /\ Len(TransportCalls) <= 3
        /\ \A i \in 1..Len(TransportCalls) :
              /\ TransportCalls[i].op = <<"connect", "login", "sendmail">>[i]
              /\ i < Len(TransportCalls) => TransportCalls[i].ok
        /\ \A i, j \in 1..Len(calls) :
              (calls[i].op \in {"quit", "close"} /\ i < j) =>
                  calls[j].op \in {"quit", "close"}

\* _invoke returned an error after connect succeeded and login was refused,
\* having made no further call but the release.
C10_Witness ==
    /\ Invoked /\ Returned
    /\ Len(TransportCalls) = 2
    /\ ~TransportCalls[2].ok
    /\ result.status = "error"

====
